---- MODULE Spec2Model ----
(***************************************************************************)
(* pypsrp: the .NET enum codec (pypsrp/dotnet.py, PSEnumBase) and the      *)
(* WinRM message-encryption framer (pypsrp/encryption.py, WinRMEncryption).*)
(*                                                                         *)
(* Text and bytes are sequences of character codes (0..255); a Python      *)
(* string "Read" is <<82,101,97,100>>.                                     *)
(***************************************************************************)
EXTENDS Integers, Sequences, FiniteSets, TLC

VARIABLES
    \* ---- enum codec (dotnet.py) ----
    epc,          \* "idle" | "new" | "str"
    enum_cls,     \* the enum class in use: [IS_FLAGS, ENUM_MAP]
    enum_arg,     \* the argument handed to PSEnumBase.__new__
    enum_subset,  \* the labels the argument was joined from (<< >> when it was not)
    enum_obj,     \* outcome of __new__: [kind |-> "ok", value] or [kind |-> "ValueError", ...]
    enum_text,    \* outcome of __str__ on the object
    \* ---- CredSSP trailer (encryption.py) ----
    tpc,          \* "idle" | "done"
    t_len,        \* msg_len handed to _credssp_trailer
    t_suite,      \* cipher_suite handed to _credssp_trailer
    t_out,        \* its return value
    \* ---- framer (encryption.py) ----
    pc,           \* "idle" | "wrapped" | "received" | "unwrapped"
    protocol,     \* self.protocol
    ctx,          \* which security context self.auth.contexts[hostname] is
    cipher,       \* context.tls_connection.get_cipher_name()
    message,      \* the plaintext handed to wrap_message
    content_type, \* first component of wrap_message's return value
    envelope,     \* the framed bytes (as returned by wrap_message, or as received)
    damage,       \* what happened to the envelope on the wire
    result,       \* outcome of unwrap_message
    unwrap_log    \* the (actual, expected) pairs unwrap_message logs, one per chunk

enum_vars  == <<epc, enum_cls, enum_arg, enum_subset, enum_obj, enum_text>>
trail_vars == <<tpc, t_len, t_suite, t_out>>
frame_vars == <<pc, protocol, ctx, cipher, message, content_type, envelope,
                damage, result, unwrap_log>>
vars == <<enum_vars, trail_vars, frame_vars>>

-----------------------------------------------------------------------------
(* Python built-ins used by the two files, on sequences of character codes. *)

Min(S) == CHOOSE x \in S : \A y \in S : x <= y
Max(S) == CHOOSE x \in S : \A y \in S : x >= y

\* pat occurs in s at index i
OccursAt(s, pat, i) ==
    /\ i >= 1
    /\ i + Len(pat) - 1 <= Len(s)
    /\ \A k \in 1..Len(pat) : s[i + k - 1] = pat[k]

\* s.find(pat, from): lowest index >= from of an occurrence, 0 when there is none
Find(s, pat, from) ==
    LET occ == {i \in from..(Len(s) - Len(pat) + 1) : OccursAt(s, pat, i)}
    IN  IF occ = {} THEN 0 ELSE Min(occ)

\* sub in s
Contains(s, sub) == Find(s, sub, 1) # 0

\* s.endswith(suf)
EndsWith(s, suf) ==
    Len(suf) <= Len(s) /\ OccursAt(s, suf, Len(s) - Len(suf) + 1)

\* every index at which pat (not empty) occurs in s
Occurrences(s, pat) ==
    {i \in 1..(Len(s) - Len(pat) + 1) : s[i] = pat[1] /\ OccursAt(s, pat, i)}

RECURSIVE SplitFrom(_, _, _, _)
\* the pieces of s from index from on, occ the occurrences of the separator of
\* length n: the next occurrence at or after from ends a piece
SplitFrom(s, n, occ, from) ==
    LET next == {i \in occ : i >= from}
    IN  IF next = {}
        THEN <<SubSeq(s, from, Len(s))>>
        ELSE <<SubSeq(s, from, Min(next) - 1)>> \o SplitFrom(s, n, occ, Min(next) + n)

\* s.split(sep), sep not empty: left to right, occurrences do not overlap
Split(s, sep) == SplitFrom(s, Len(sep), Occurrences(s, sep), 1)

RECURSIVE Join(_, _)
\* sep.join(parts)
Join(parts, sep) ==
    IF parts = << >> THEN << >>
    ELSE IF Len(parts) = 1 THEN parts[1]
    ELSE parts[1] \o sep \o Join(Tail(parts), sep)

\* s.replace(old, new), old not empty
Replace(s, old, new) == Join(Split(s, old), new)

\* list(filter(None, parts)): the non-empty parts, in order
FilterNonEmpty(parts) == SelectSeq(parts, LAMBDA p : p # << >>)

\* bytes.strip() strips ASCII whitespace; str.strip() also strips \x1c..\x1f, \x85, \xa0
BytesWhitespace == {9, 10, 11, 12, 13, 32}
StrWhitespace   == BytesWhitespace \cup {28, 29, 30, 31, 133, 160}

\* s.strip()
Strip(s, ws) ==
    LET keep == {i \in 1..Len(s) : s[i] \notin ws}
    IN  IF keep = {} THEN << >> ELSE SubSeq(s, Min(keep), Max(keep))

\* Python's index normalisation of a slice bound: negative counts from the end
SliceIndex(s, i) ==
    IF i >= 0 THEN (IF i > Len(s) THEN Len(s) ELSE i)
    ELSE (IF Len(s) + i < 0 THEN 0 ELSE Len(s) + i)

\* s[a:b] for any integers a, b
PySlice(s, a, b) == SubSeq(s, SliceIndex(s, a) + 1, SliceIndex(s, b))

Digits == 48..57

RECURSIVE NatToStr(_)
NatToStr(n) ==
    IF n < 10 THEN <<48 + n>> ELSE NatToStr(n \div 10) \o <<48 + (n % 10)>>

\* str(n), "%d" % n
IntToStr(n) == IF n < 0 THEN <<45>> \o NatToStr(-n) ELSE NatToStr(n)

RECURSIVE DigitsValue(_)
DigitsValue(ds) ==
    IF ds = << >> THEN 0
    ELSE 10 * DigitsValue(SubSeq(ds, 1, Len(ds) - 1)) + (ds[Len(ds)] - 48)

\* int(s): surrounding whitespace, one optional sign, decimal digits with single
\* underscores between digits; anything else raises ValueError
ParseInt(s) ==
    LET t    == Strip(s, BytesWhitespace)
        neg  == t # << >> /\ t[1] = 45
        body == IF t # << >> /\ t[1] \in {43, 45} THEN Tail(t) ELSE t
        ok   == /\ body # << >>
                /\ \A i \in 1..Len(body) : body[i] \in Digits \cup {95}
                /\ body[1] \in Digits
                /\ body[Len(body)] \in Digits
                /\ \A i \in 1..(Len(body) - 1) : ~(body[i] = 95 /\ body[i + 1] = 95)
        v    == DigitsValue(SelectSeq(body, LAMBDA c : c \in Digits))
    IN  IF ok THEN [ok |-> TRUE, v |-> IF neg THEN -v ELSE v]
        ELSE [ok |-> FALSE, v |-> 0]

RECURSIVE BitAnd(_, _)
\* a & b on non-negative integers
BitAnd(a, b) ==
    IF a = 0 \/ b = 0 THEN 0
    ELSE 2 * BitAnd(a \div 2, b \div 2) + (IF a % 2 = 1 /\ b % 2 = 1 THEN 1 ELSE 0)

RECURSIVE BitOr(_, _)
\* a | b on non-negative integers
BitOr(a, b) ==
    IF a = 0 THEN b
    ELSE IF b = 0 THEN a
    ELSE 2 * BitOr(a \div 2, b \div 2) + (IF a % 2 = 1 \/ b % 2 = 1 THEN 1 ELSE 0)

\* a & ~v on non-negative integers
BitClear(a, v) == a - BitAnd(a, v)

-----------------------------------------------------------------------------
(* dotnet.py: PSEnumBase.  A subclass supplies ENUM_MAP (label -> value, in *)
(* definition order) and IS_FLAGS.  Values are non-negative here.           *)

L_None    == <<78,111,110,101>>              \* 'None'
L_Read    == <<82,101,97,100>>               \* 'Read'
L_Write   == <<87,114,105,116,101>>          \* 'Write'
L_Execute == <<69,120,101,99,117,116,101>>   \* 'Execute'
L_Modify  == <<77,111,100,105,102,121>>      \* 'Modify'

\* PSEnumBase itself: ENUM_MAP = {'None': 0}, IS_FLAGS = False
BaseEnum ==
    [IS_FLAGS |-> FALSE, ENUM_MAP |-> <<[k |-> L_None, v |-> 0]>>]

\* a non-flag subclass
PlainEnum ==
    [IS_FLAGS |-> FALSE,
     ENUM_MAP |-> <<[k |-> L_None, v |-> 0], [k |-> L_Read, v |-> 1],
                    [k |-> L_Write, v |-> 2], [k |-> L_Execute, v |-> 3]>>]

\* flag subclass {None:0, Read:1, Write:2, Execute:4}
AccessFlags ==
    [IS_FLAGS |-> TRUE,
     ENUM_MAP |-> <<[k |-> L_None, v |-> 0], [k |-> L_Read, v |-> 1],
                    [k |-> L_Write, v |-> 2], [k |-> L_Execute, v |-> 4]>>]

\* flag subclass whose values share bits
OverlapFlags ==
    [IS_FLAGS |-> TRUE,
     ENUM_MAP |-> <<[k |-> L_None, v |-> 0], [k |-> L_Read, v |-> 3],
                    [k |-> L_Write, v |-> 6], [k |-> L_Execute, v |-> 4]>>]

\* flag subclass with two labels for one value
AliasFlags ==
    [IS_FLAGS |-> TRUE,
     ENUM_MAP |-> <<[k |-> L_None, v |-> 0], [k |-> L_Read, v |-> 1],
                    [k |-> L_Write, v |-> 2], [k |-> L_Modify, v |-> 2]>>]

EnumClasses == {BaseEnum, PlainEnum, AccessFlags, OverlapFlags, AliasFlags}

\* list(cls.ENUM_MAP.keys())
Keys(cls) == [i \in DOMAIN cls.ENUM_MAP |-> cls.ENUM_MAP[i].k]

\* label in cls.ENUM_MAP
HasKey(cls, label) == \E i \in DOMAIN cls.ENUM_MAP : cls.ENUM_MAP[i].k = label

\* cls.ENUM_MAP[label]
Lookup(cls, label) ==
    cls.ENUM_MAP[CHOOSE i \in DOMAIN cls.ENUM_MAP : cls.ENUM_MAP[i].k = label].v

\* the ValueError of __new__: the offending token and ", ".join(ENUM_MAP.keys())
InvalidLabel(cls, label) ==
    [kind |-> "ValueError", token |-> label, valid |-> Join(Keys(cls), <<44, 32>>)]

RECURSIVE NewFlagsLoop(_, _, _, _)
\* the loop over value.split(','): strip, look up, or
NewFlagsLoop(cls, labels, i, enum_value) ==
    IF i > Len(labels) THEN [kind |-> "ok", value |-> enum_value]
    ELSE LET label == Strip(labels[i], StrWhitespace)
         IN  IF ~HasKey(cls, label) THEN InvalidLabel(cls, label)
             ELSE NewFlagsLoop(cls, labels, i + 1, BitOr(enum_value, Lookup(cls, label)))

RECURSIVE NewFlagsLoop_skip(_, _, _, _)
NewFlagsLoop_skip(cls, labels, i, enum_value) ==
    IF i > Len(labels) THEN [kind |-> "ok", value |-> enum_value]
    ELSE LET label == Strip(labels[i], StrWhitespace)
         IN  IF ~HasKey(cls, label) THEN NewFlagsLoop_skip(cls, labels, i + 1, enum_value)
             ELSE NewFlagsLoop_skip(cls, labels, i + 1,
                                    BitOr(enum_value, Lookup(cls, label)))

\* PSEnumBase.__new__ that drops a label it does not know
PSEnumBase_new_skip(cls, value) ==
    IF value.type = "text"
    THEN IF cls.IS_FLAGS
         THEN NewFlagsLoop_skip(cls, Split(value.s, <<44>>), 1, 0)
         ELSE IF ~HasKey(cls, value.s) THEN [kind |-> "ok", value |-> 0]
              ELSE [kind |-> "ok", value |-> Lookup(cls, value.s)]
    ELSE [kind |-> "ok", value |-> value.n]

\* PSEnumBase.__new__(cls, value): value is [type |-> "text", s] or [type |-> "int", n]
PSEnumBase_new(cls, value) ==
    IF value.type = "text"
    THEN IF cls.IS_FLAGS
         THEN NewFlagsLoop(cls, Split(value.s, <<44>>), 1, 0)
         ELSE IF ~HasKey(cls, value.s) THEN InvalidLabel(cls, value.s)
              ELSE [kind |-> "ok", value |-> Lookup(cls, value.s)]
    ELSE [kind |-> "ok", value |-> value.n]

\* enum_map = dict([(v, k) for k, v in ENUM_MAP.items()]): its keys
EnumMapKeys(cls) == {cls.ENUM_MAP[i].v : i \in DOMAIN cls.ENUM_MAP}

\* enum_map[v]: a later label replaces an earlier one with the same value
EnumMapGet(cls, v) ==
    cls.ENUM_MAP[Max({i \in DOMAIN cls.ENUM_MAP : cls.ENUM_MAP[i].v = v})].k

RECURSIVE SortedReverse(_)
\* sorted(S, reverse=True)
SortedReverse(S) ==
    IF S = {} THEN << >> ELSE <<Max(S)>> \o SortedReverse(S \ {Max(S)})

RECURSIVE SortedForward(_)
SortedForward(S) ==
    IF S = {} THEN << >> ELSE <<Min(S)>> \o SortedForward(S \ {Min(S)})

RECURSIVE StrFlagsLoop(_, _, _, _, _)
\* the loop of __str__ over the candidate values: emit and clear what is contained
StrFlagsLoop(cls, order, i, flags_set, enum_value) ==
    IF i > Len(order) THEN [flags_set |-> flags_set, enum_value |-> enum_value]
    ELSE LET v == order[i]
         IN  IF BitAnd(enum_value, v) = v
             THEN StrFlagsLoop(cls, order, i + 1,
                               Append(flags_set, EnumMapGet(cls, v)), BitClear(enum_value, v))
             ELSE StrFlagsLoop(cls, order, i + 1, flags_set, enum_value)

RECURSIVE StrFlagsLoop_keep(_, _, _, _, _)
StrFlagsLoop_keep(cls, order, i, flags_set, enum_value) ==
    IF i > Len(order) THEN [flags_set |-> flags_set, enum_value |-> enum_value]
    ELSE LET v == order[i]
         IN  IF BitAnd(enum_value, v) = v
             THEN StrFlagsLoop_keep(cls, order, i + 1,
                                    Append(flags_set, EnumMapGet(cls, v)), enum_value)
             ELSE StrFlagsLoop_keep(cls, order, i + 1, flags_set, enum_value)

\* the tail of __str__, shared by the variants below
StrFinish(self, loop) ==
    LET flags_set == IF loop.enum_value # 0
                     THEN Append(loop.flags_set, IntToStr(loop.enum_value))
                     ELSE loop.flags_set
    IN  Join(IF flags_set # << >> THEN flags_set ELSE <<IntToStr(self)>>, <<44, 32>>)

\* __str__ that walks the candidates low value first
PSEnumBase_str_ascending(cls, self) ==
    IF ~cls.IS_FLAGS
    THEN IF self \in EnumMapKeys(cls) THEN EnumMapGet(cls, self) ELSE IntToStr(self)
    ELSE IF self \in EnumMapKeys(cls) THEN EnumMapGet(cls, self)
    ELSE StrFinish(self, StrFlagsLoop(cls, SortedForward(EnumMapKeys(cls) \ {0}),
                                      1, << >>, self))

\* __str__ that does not clear the bits of a flag it emitted
PSEnumBase_str_keep(cls, self) ==
    IF ~cls.IS_FLAGS
    THEN IF self \in EnumMapKeys(cls) THEN EnumMapGet(cls, self) ELSE IntToStr(self)
    ELSE IF self \in EnumMapKeys(cls) THEN EnumMapGet(cls, self)
    ELSE StrFinish(self, StrFlagsLoop_keep(cls, SortedReverse(EnumMapKeys(cls) \ {0}),
                                           1, << >>, self))

\* PSEnumBase.__str__(self), self the integer value of an instance of cls
PSEnumBase_str(cls, self) ==
    IF ~cls.IS_FLAGS
    THEN IF self \in EnumMapKeys(cls) THEN EnumMapGet(cls, self) ELSE IntToStr(self)
    ELSE IF self \in EnumMapKeys(cls) THEN EnumMapGet(cls, self)
    ELSE StrFinish(self, StrFlagsLoop(cls, SortedReverse(EnumMapKeys(cls) \ {0}),
                                      1, << >>, self))

(* ---- the enum codec as a state machine ---- *)

MaxEnumInt == 15   \* integers handed to __new__ directly: 0..MaxEnumInt
MaxPieces  == 3    \* a text argument is made of at most this many pieces

\* what text arguments are made of: labels, a wrong label, a wrong case,
\* the separator and whitespace
Pieces ==
    {L_None, L_Read, L_Write, L_Execute,
     <<66,111,103,117,115>>,   \* 'Bogus'
     <<114,101,97,100>>,       \* 'read'
     <<44>>, <<32>>, <<9>>}    \* ',' ' ' '\t'

RECURSIVE Flatten(_)
Flatten(ps) == IF ps = << >> THEN << >> ELSE ps[1] \o Flatten(Tail(ps))

TextArgs ==
    {Flatten(ps) : ps \in UNION {[1..n -> Pieces] : n \in 0..MaxPieces}}

\* the labels of cls picked by the index set I, in definition order
RECURSIVE LabelSeq(_, _)
LabelSeq(cls, I) ==
    IF I = {} THEN << >> ELSE <<cls.ENUM_MAP[Min(I)].k>> \o LabelSeq(cls, I \ {Min(I)})

NoSubset == [joined |-> FALSE, labels |-> << >>]

EnumIdle ==
    /\ epc = "idle"
    /\ enum_cls = BaseEnum
    /\ enum_arg = [type |-> "int", n |-> 0]
    /\ enum_subset = NoSubset
    /\ enum_obj = [kind |-> "none"]
    /\ enum_text = << >>

\* cls(", ".join(labels)) or cls(",".join(labels)) for a subset of cls's labels
NewFromSubset ==
    /\ epc = "idle"
    /\ \E cls \in EnumClasses, sep \in {<<44>>, <<44, 32>>} :
         \E I \in SUBSET DOMAIN cls.ENUM_MAP :
           LET labels == LabelSeq(cls, I)
               arg    == [type |-> "text", s |-> Join(labels, sep)]
           IN  /\ enum_cls' = cls
               /\ enum_arg' = arg
               /\ enum_subset' = [joined |-> TRUE, labels |-> labels]
               /\ enum_obj' = PSEnumBase_new(cls, arg)
    /\ epc' = "new"
    /\ UNCHANGED enum_text

\* cls(text) for any text
NewFromText ==
    /\ epc = "idle"
    /\ \E cls \in EnumClasses, s \in TextArgs :
         LET arg == [type |-> "text", s |-> s]
         IN  /\ enum_cls' = cls
             /\ enum_arg' = arg
             /\ enum_obj' = PSEnumBase_new(cls, arg)
    /\ enum_subset' = NoSubset
    /\ epc' = "new"
    /\ UNCHANGED enum_text

\* cls(n) for an integer
NewFromInt ==
    /\ epc = "idle"
    /\ \E cls \in EnumClasses, n \in 0..MaxEnumInt :
         LET arg == [type |-> "int", n |-> n]
         IN  /\ enum_cls' = cls
             /\ enum_arg' = arg
             /\ enum_obj' = PSEnumBase_new(cls, arg)
    /\ enum_subset' = NoSubset
    /\ epc' = "new"
    /\ UNCHANGED enum_text

\* str(obj)
EnumStr ==
    /\ epc = "new"
    /\ enum_obj.kind = "ok"
    /\ enum_text' = PSEnumBase_str(enum_cls, enum_obj.value)
    /\ epc' = "str"
    /\ UNCHANGED <<enum_cls, enum_arg, enum_subset, enum_obj>>

-----------------------------------------------------------------------------
(* encryption.py: WinRMEncryption._credssp_trailer                          *)

\* \w (and \d) on ASCII text: letters, digits, underscore
WordChars == (48..57) \cup (65..90) \cup (97..122) \cup {95}

\* re.match(r'^.*-GCM-[\w\d]*$', s): '.' is any character but a newline, '$'
\* is the end or the place before one final newline
MatchesGcmPattern(s) ==
    \E i \in 1..Len(s) :
        /\ OccursAt(s, <<45,71,67,77,45>>, i)                  \* '-GCM-'
        /\ \A j \in 1..(i - 1) : s[j] # 10
        /\ LET rest == SubSeq(s, i + 5, Len(s))
               body == IF rest # << >> /\ rest[Len(rest)] = 10
                       THEN SubSeq(rest, 1, Len(rest) - 1) ELSE rest
           IN  \/ \A k \in 1..Len(rest) : rest[k] \in WordChars
               \/ \A k \in 1..Len(body) : body[k] \in WordChars

\* {'MD5': 16, 'SHA': 20, 'SHA256': 32, 'SHA384': 48}.get(hash_algorithm, 0)
HashLength(hash_algorithm) ==
    IF hash_algorithm = <<77,68,53>> THEN 16                   \* 'MD5'
    ELSE IF hash_algorithm = <<83,72,65>> THEN 20              \* 'SHA'
    ELSE IF hash_algorithm = <<83,72,65,50,53,54>> THEN 32     \* 'SHA256'
    ELSE IF hash_algorithm = <<83,72,65,51,56,52>> THEN 48     \* 'SHA384'
    ELSE 0

\* WinRMEncryption._credssp_trailer(msg_len, cipher_suite)
_credssp_trailer(msg_len, cipher_suite) ==
    IF MatchesGcmPattern(cipher_suite) THEN 16
    ELSE LET parts          == Split(cipher_suite, <<45>>)
             hash_algorithm == parts[Len(parts)]
             hash_length    == HashLength(hash_algorithm)
             pre_pad_length == msg_len + hash_length
             padding_length ==
                 IF Contains(cipher_suite, <<82,67,52>>) THEN 0            \* 'RC4'
                 ELSE IF \/ Contains(cipher_suite, <<68,69,83>>)           \* 'DES'
                         \/ Contains(cipher_suite, <<51,68,69,83>>)        \* '3DES'
                      THEN 8 - (pre_pad_length % 8)
                 ELSE 16 - (pre_pad_length % 16)
         IN  (pre_pad_length + padding_length) - msg_len

MaxMsgLen == 40    \* msg_len handed to _credssp_trailer: 0..MaxMsgLen

\* names get_cipher_name() returns
GcmSha384      == <<69,67,68,72,69,45,82,83,65,45,65,69,83,50,53,54,45,71,67,77,45,83,72,65,51,56,52>>  \* 'ECDHE-RSA-AES256-GCM-SHA384'
GcmSha256      == <<65,69,83,49,50,56,45,71,67,77,45,83,72,65,50,53,54>>  \* 'AES128-GCM-SHA256'
Tls13GcmSha384 == <<84,76,83,95,65,69,83,95,50,53,54,95,71,67,77,95,83,72,65,51,56,52>>  \* 'TLS_AES_256_GCM_SHA384'
CbcSha384      == <<69,67,68,72,69,45,82,83,65,45,65,69,83,50,53,54,45,83,72,65,51,56,52>>  \* 'ECDHE-RSA-AES256-SHA384'
AesSha         == <<65,69,83,50,53,54,45,83,72,65>>  \* 'AES256-SHA'
AesSha256      == <<65,69,83,49,50,56,45,83,72,65,50,53,54>>  \* 'AES128-SHA256'
Rc4Md5         == <<82,67,52,45,77,68,53>>  \* 'RC4-MD5'
DesCbc3Sha     == <<68,69,83,45,67,66,67,51,45,83,72,65>>  \* 'DES-CBC3-SHA'
ChaCha         == <<69,67,68,72,69,45,82,83,65,45,67,72,65,67,72,65,50,48,45,80,79,76,89,49,51,48,53>>  \* 'ECDHE-RSA-CHACHA20-POLY1305'

CipherSuites ==
    {GcmSha384, GcmSha256, Tls13GcmSha384, CbcSha384, AesSha, AesSha256,
     Rc4Md5, DesCbc3Sha, ChaCha}

TrailerIdle ==
    /\ tpc = "idle"
    /\ t_len = 0
    /\ t_suite = << >>
    /\ t_out = 0

\* self._credssp_trailer(msg_len, cipher_suite)
CredsspTrailer ==
    /\ tpc = "idle"
    /\ \E msg_len \in 0..MaxMsgLen, cipher_suite \in CipherSuites :
         /\ t_len' = msg_len
         /\ t_suite' = cipher_suite
         /\ t_out' = _credssp_trailer(msg_len, cipher_suite)
    /\ tpc' = "done"

-----------------------------------------------------------------------------
(* The security context of a host, self.auth.contexts[hostname]: supplied   *)
(* by the caller, not part of the two files.  Two contexts stand for it;    *)
(* unwrap inverts wrap in both.  "auth" authenticates what it is handed and *)
(* raises on anything its wrap did not produce; "lenient" decrypts whatever *)
(* it is handed and never raises.                                           *)

ContextKinds == {"auth", "lenient"}

\* the cipher: every byte moved up by one
Encipher(data) == SubSeq([i \in 1..Len(data) |-> (data[i] + 1) % 256], 1, Len(data))
Decipher(data) == SubSeq([i \in 1..Len(data) |-> (data[i] + 255) % 256], 1, Len(data))

RECURSIVE ByteSum(_, _, _)
ByteSum(data, lo, hi) ==
    IF lo > hi THEN 0
    ELSE IF lo = hi THEN data[lo]
    ELSE LET mid == (lo + hi) \div 2
         IN  ByteSum(data, lo, mid) + ByteSum(data, mid + 1, hi)

\* the signature of a plaintext: fixed length, changes with any one byte and with the length
Signature(data) == <<ByteSum(data, 1, Len(data)) % 256, Len(data) % 256>>
SignatureLength == Len(Signature(<< >>))

ContextError == [kind |-> "error", error |-> "ContextError",
                 data |-> << >>, actual |-> 0, expected |-> 0]
Recovered(data) == [kind |-> "ok", error |-> "", data |-> data, actual |-> 0, expected |-> 0]

\* SPNEGO: context.wrap(data) -> (header, wrapped_data)
SpnegoContextWrap(data) == [header |-> Signature(data), wrapped_data |-> Encipher(data)]

\* SPNEGO: context.unwrap(header, wrapped_data)
SpnegoContextUnwrap(kind, header, wrapped_data) ==
    LET data == Decipher(wrapped_data)
    IN  IF kind = "auth" /\ header # Signature(data) THEN ContextError
        ELSE Recovered(data)

\* CredSSP: context.wrap(data) -> the TLS record, the ciphertext and its trailer
CredsspContextWrap(data) == Encipher(data) \o Signature(data)

\* CredSSP: context.unwrap(wrapped_data)
CredsspContextUnwrap(kind, wrapped_data) ==
    LET body == PySlice(wrapped_data, 0, Len(wrapped_data) - SignatureLength)
        tail == SubSeq(wrapped_data, Len(body) + 1, Len(wrapped_data))
        data == Decipher(body)
    IN  IF kind = "auth" /\ tail # Signature(data) THEN ContextError
        ELSE Recovered(data)

-----------------------------------------------------------------------------
(* encryption.py: WinRMEncryption                                           *)

SIXTEEN_KB == 16384
MIME_BOUNDARY == <<45,45,69,110,99,114,121,112,116,101,100,32,66,111,117,110,100,97,114,121>>  \* '--Encrypted Boundary'
CREDSSP == <<97,112,112,108,105,99,97,116,105,111,110,47,72,84,84,80,45,67,114,101,100,83,83,80,45,115,101,115,115,105,111,110,45,101,110,99,114,121,112,116,101,100>>  \* 'application/HTTP-CredSSP-session-encrypted'
SPNEGO == <<97,112,112,108,105,99,97,116,105,111,110,47,72,84,84,80,45,83,80,78,69,71,79,45,115,101,115,115,105,111,110,45,101,110,99,114,121,112,116,101,100>>  \* 'application/HTTP-SPNEGO-session-encrypted'

CRLF == <<13, 10>>
\* to_bytes("%s\r\n" % self.MIME_BOUNDARY)
BoundaryLine == MIME_BOUNDARY \o CRLF
\* to_bytes("%s--\r\n" % self.MIME_BOUNDARY)
EndBoundary == MIME_BOUNDARY \o <<45, 45, 13, 10>>
\* b"\tContent-Type: application/octet-stream\r\n"
OctetStreamLine == <<9,67,111,110,116,101,110,116,45,84,121,112,101,58,32,97,112,112,108,105,99,97,116,105,111,110,47,111,99,116,101,116,45,115,116,114,101,97,109,13,10>>
\* "\tContent-Type: "
ContentTypePrefix == <<9,67,111,110,116,101,110,116,45,84,121,112,101,58,32>>
\* "\tOriginalContent: type=application/soap+xml;charset=UTF-8;Length="
OriginalContentPrefix == <<9,79,114,105,103,105,110,97,108,67,111,110,116,101,110,116,58,32,116,121,112,101,61,97,112,112,108,105,99,97,116,105,111,110,47,115,111,97,112,43,120,109,108,59,99,104,97,114,115,101,116,61,85,84,70,45,56,59,76,101,110,103,116,104,61>>
\* b"Length="
LengthField == <<76,101,110,103,116,104,61>>

StructError == [kind |-> "error", error |-> "struct.error",
                data |-> << >>, actual |-> 0, expected |-> 0]
IndexError  == [kind |-> "error", error |-> "IndexError",
                data |-> << >>, actual |-> 0, expected |-> 0]
ValueError  == [kind |-> "error", error |-> "ValueError",
                data |-> << >>, actual |-> 0, expected |-> 0]
\* WinRMError("... decryption failed, actual: %d != expected: %d")
LengthMismatch(actual_length, expected_length) ==
    [kind |-> "error", error |-> "WinRMError",
     data |-> << >>, actual |-> actual_length, expected |-> expected_length]

\* struct.pack("<i", n), n within the signed 32 bits: two's complement, low byte first
PackInt32(n) ==
    <<n % 256, (n \div 256) % 256, (n \div 65536) % 256, (n \div 16777216) % 256>>

\* struct.unpack("<i", b)[0], b of four bytes
UnpackInt32(b) ==
    b[1] + 256 * b[2] + 65536 * b[3] + 16777216 * (IF b[4] >= 128 THEN b[4] - 256 ELSE b[4])

\* _wrap_spnego(data, hostname)
_wrap_spnego(self, data) ==
    LET w == SpnegoContextWrap(data)
    IN  PackInt32(Len(w.header)) \o w.header \o w.wrapped_data

\* _wrap_credssp(data, hostname)
_wrap_credssp(self, data) ==
    LET wrapped_data   == CredsspContextWrap(data)
        trailer_length == _credssp_trailer(Len(data), self.cipher)
    IN  PackInt32(trailer_length) \o wrapped_data

\* self._wrap, bound in __init__
wrap(self, data) ==
    IF self.protocol = SPNEGO THEN _wrap_spnego(self, data) ELSE _wrap_credssp(self, data)

\* _unwrap_spnego(data, hostname)
_unwrap_spnego(self, data) ==
    IF Len(data) < 4 THEN StructError
    ELSE LET header_length == UnpackInt32(SubSeq(data, 1, 4))
             \* 4 + header_length, kept within the length of data when it is beyond it
             split_at      == IF header_length > Len(data) THEN Len(data)
                              ELSE 4 + header_length
             header        == PySlice(data, 4, split_at)
             wrapped_data  == PySlice(data, split_at, Len(data))
         IN  SpnegoContextUnwrap(self.context, header, wrapped_data)

\* _unwrap_credssp(data, hostname)
_unwrap_credssp(self, data) ==
    CredsspContextUnwrap(self.context, PySlice(data, 4, Len(data)))

\* self._unwrap, bound in __init__
unwrap(self, data) ==
    IF self.protocol = SPNEGO THEN _unwrap_spnego(self, data) ELSE _unwrap_credssp(self, data)

\* _wrap_message(msg, hostname)
_wrap_message(self, msg) ==
    LET msg_length   == IntToStr(Len(msg))
        wrapped_data == wrap(self, msg)
        payload == Join(<<MIME_BOUNDARY,
                          ContentTypePrefix \o self.protocol,
                          OriginalContentPrefix \o msg_length,
                          MIME_BOUNDARY,
                          SubSeq(OctetStreamLine, 1, Len(OctetStreamLine) - 2),
                          << >>            >>, CRLF)
    IN  payload \o wrapped_data

\* [message[i:i + SIXTEEN_KB] for i in range(0, len(message), SIXTEEN_KB)]
Chunks(msg) ==
    [k \in 1..((Len(msg) + SIXTEEN_KB - 1) \div SIXTEEN_KB) |->
        SubSeq(msg, (k - 1) * SIXTEEN_KB + 1,
               IF k * SIXTEEN_KB > Len(msg) THEN Len(msg) ELSE k * SIXTEEN_KB)]

RECURSIVE WrapChunks(_, _, _)
\* the loop: encrypted_msg += self._wrap_message(chunk, hostname)
WrapChunks(self, chunks, i) ==
    IF i > Len(chunks) THEN << >>
    ELSE _wrap_message(self, chunks[i]) \o WrapChunks(self, chunks, i + 1)

\* wrap_message that already splits a message of exactly SIXTEEN_KB bytes
wrap_message_ge(self, msg) ==
    LET multi == self.protocol = CREDSSP /\ Len(msg) >= SIXTEEN_KB
        encrypted_msg == IF multi THEN WrapChunks(self, Chunks(msg), 1)
                         ELSE _wrap_message(self, msg)
    IN  [content_type  |-> IF multi THEN "multipart/x-multi-encrypted"
                           ELSE "multipart/encrypted",
         encrypted_msg |-> encrypted_msg \o EndBoundary]

\* wrap_message(msg, hostname) -> (content_type, encrypted_msg)
wrap_message(self, msg) ==
    LET multi == self.protocol = CREDSSP /\ Len(msg) > SIXTEEN_KB
        encrypted_msg == IF multi THEN WrapChunks(self, Chunks(msg), 1)
                         ELSE _wrap_message(self, msg)
    IN  [content_type  |-> IF multi THEN "multipart/x-multi-encrypted"
                           ELSE "multipart/encrypted",
         encrypted_msg |-> encrypted_msg \o EndBoundary]

\* one pass of unwrap_message's loop body, up to the length comparison:
\* [raised, error] or [raised |-> FALSE, data, actual, expected]
UnwrapPart(self, parts, i) ==
    IF i + 1 > Len(parts) THEN [raised |-> TRUE, error |-> IndexError]
    ELSE LET header  == Strip(parts[i], BytesWhitespace)
             payload == parts[i + 1]
             fields  == Split(header, LengthField)
         IN  IF Len(fields) < 2 THEN [raised |-> TRUE, error |-> IndexError]
             ELSE LET parsed == ParseInt(fields[2])
                  IN  IF ~parsed.ok THEN [raised |-> TRUE, error |-> ValueError]
                      ELSE LET trimmed == IF EndsWith(payload, EndBoundary)
                                          THEN PySlice(payload, 0, Len(payload) - 24)
                                          ELSE payload
                               wrapped_data   == Replace(trimmed, OctetStreamLine, << >>)
                               unwrapped_data == unwrap(self, wrapped_data)
                           IN  IF unwrapped_data.kind # "ok"
                               THEN [raised |-> TRUE, error |-> unwrapped_data]
                               ELSE [raised |-> FALSE, data |-> unwrapped_data.data,
                                     actual |-> Len(unwrapped_data.data),
                                     expected |-> parsed.v]

RECURSIVE UnwrapLoop_nocheck(_, _, _, _, _)
UnwrapLoop_nocheck(self, parts, i, message_acc, log) ==
    IF i > Len(parts)
    THEN [result |-> Recovered(message_acc), log |-> log]
    ELSE LET part == UnwrapPart(self, parts, i)
         IN  IF part.raised THEN [result |-> part.error, log |-> log]
             ELSE UnwrapLoop_nocheck(self, parts, i + 2, message_acc \o part.data,
                      Append(log, [actual |-> part.actual, expected |-> part.expected]))

\* unwrap_message that never compares the lengths
unwrap_message_nocheck(self, message_in) ==
    UnwrapLoop_nocheck(self, FilterNonEmpty(Split(message_in, BoundaryLine)), 1, << >>, << >>)

RECURSIVE UnwrapLoop(_, _, _, _, _)
\* for i in range(0, len(parts), 2): ... ; log holds what log.debug reported
UnwrapLoop(self, parts, i, message_acc, log) ==
    IF i > Len(parts)
    THEN [result |-> Recovered(message_acc), log |-> log]
    ELSE LET part == UnwrapPart(self, parts, i)
         IN  IF part.raised THEN [result |-> part.error, log |-> log]
             ELSE LET logged == Append(log, [actual |-> part.actual,
                                             expected |-> part.expected])
                  IN  IF part.actual # part.expected
                      THEN [result |-> LengthMismatch(part.actual, part.expected),
                            log |-> logged]
                      ELSE UnwrapLoop(self, parts, i + 2, message_acc \o part.data, logged)

\* unwrap_message(message, hostname)
unwrap_message(self, message_in) ==
    UnwrapLoop(self, FilterNonEmpty(Split(message_in, BoundaryLine)), 1, << >>, << >>)

(* ---- the framer as a state machine ---- *)

MaxFrags     == 2   \* a short message is made of at most this many fragments
MaxChunks    == 2   \* long messages: k * SIXTEEN_KB and k * SIXTEEN_KB + 1, k <= MaxChunks
MaxTamperLen == 2   \* envelopes of messages up to this length are damaged on the wire
MaxCut       == 8   \* a chunk's binary payload is cut down to at most this many bytes

\* what short messages are made of: a letter, and the plaintexts whose
\* ciphertext is the boundary line, the octet-stream line, the end boundary
Fragments ==
    {<<97>>, Decipher(BoundaryLine), Decipher(OctetStreamLine), Decipher(EndBoundary)}

ShortMessages ==
    {Flatten(fs) : fs \in UNION {[1..n -> Fragments] : n \in 0..MaxFrags}}

\* n bytes, the k-th run of SIXTEEN_KB bytes filled with the k-th letter
LongMessage(n) == SubSeq([i \in 1..n |-> 97 + ((i - 1) \div SIXTEEN_KB)], 1, n)

LongMessages ==
    {LongMessage(k * SIXTEEN_KB + d) : k \in 1..MaxChunks, d \in {0, 1}}

Messages == ShortMessages \cup LongMessages

\* the values a byte is changed to on the wire: '0', 'x', 0xff
WireBytes == {48, 120, 255}

NoCipher == << >>
NoDamage == [kind |-> "none", region |-> "", at |-> 0]
NoResult == [kind |-> "none", error |-> "", data |-> << >>, actual |-> 0, expected |-> 0]

\* the WinRMEncryption object the state describes
Self == [protocol |-> protocol, context |-> ctx, cipher |-> cipher]

FrameIdle ==
    /\ pc = "none"
    /\ protocol = << >>
    /\ ctx = "auth"
    /\ cipher = NoCipher
    /\ message = << >>
    /\ content_type = ""
    /\ envelope = << >>
    /\ damage = NoDamage
    /\ result = NoResult
    /\ unwrap_log = << >>

\* WinRMEncryption(auth, protocol): the context of the host and, for CredSSP,
\* the cipher suite its TLS connection negotiated
Construct ==
    /\ pc = "none"
    /\ \E p \in {SPNEGO, CREDSSP}, c \in ContextKinds,
          s \in {NoCipher, GcmSha384, AesSha} :
         /\ (p = SPNEGO) <=> (s = NoCipher)
         /\ protocol' = p
         /\ ctx' = c
         /\ cipher' = s
    /\ pc' = "idle"
    /\ UNCHANGED <<message, content_type, envelope, damage, result, unwrap_log>>

\* content_type, encrypted_msg = wrap_message(m, hostname)
WrapMessage ==
    /\ pc = "idle"
    /\ \E m \in Messages :
         LET r == wrap_message(Self, m)
         IN  /\ message' = m
             /\ content_type' = r.content_type
             /\ envelope' = r.encrypted_msg
    /\ pc' = "wrapped"
    /\ UNCHANGED <<protocol, ctx, cipher, damage, result, unwrap_log>>

\* the last chunk of the wrapped message and the place of its binary payload
LastChunk ==
    IF content_type = "multipart/x-multi-encrypted"
    THEN Chunks(message)[Len(Chunks(message))] ELSE message
BinaryLen   == Len(wrap(Self, LastChunk))
BinaryStart == Len(envelope) - Len(EndBoundary) - BinaryLen + 1
\* the place of the first header's "Length=<n>"
LengthStart == Find(envelope, LengthField, 1)
LengthEnd   == Find(envelope, CRLF, LengthStart) - 1

\* one byte of the envelope changes on the wire: in the Length= field of the
\* header, or in the binary payload of the chunk
Mutate ==
    /\ pc = "wrapped"
    /\ Len(message) <= MaxTamperLen
    /\ \E i \in (LengthStart..LengthEnd) \cup (BinaryStart..(BinaryStart + BinaryLen - 1)),
          b \in WireBytes :
         /\ envelope[i] # b
         /\ envelope' = [envelope EXCEPT ![i] = b]
         /\ damage' = [kind |-> "mutate",
                       region |-> IF i >= BinaryStart THEN "binary" ELSE "header",
                       at |-> i]
    /\ pc' = "received"
    /\ UNCHANGED <<protocol, ctx, cipher, message, content_type, result, unwrap_log>>

\* the envelope ends early: only its first k bytes arrive
Truncate ==
    /\ pc = "wrapped"
    /\ Len(message) <= MaxTamperLen
    /\ \E k \in (LengthStart - 1)..(Len(envelope) - 1) :
         /\ envelope' = SubSeq(envelope, 1, k)
         /\ damage' = [kind |-> "truncate", region |-> "", at |-> k]
    /\ pc' = "received"
    /\ UNCHANGED <<protocol, ctx, cipher, message, content_type, result, unwrap_log>>

\* the binary payload of the last chunk is cut to its first k bytes; the end
\* boundary still follows
CutBinary ==
    /\ pc = "wrapped"
    /\ Len(LastChunk) <= MaxTamperLen
    /\ \E k \in 0..(IF BinaryLen - 1 < MaxCut THEN BinaryLen - 1 ELSE MaxCut) :
         /\ envelope' = SubSeq(envelope, 1, BinaryStart - 1 + k) \o EndBoundary
         /\ damage' = [kind |-> "cut", region |-> "binary", at |-> k]
    /\ pc' = "received"
    /\ UNCHANGED <<protocol, ctx, cipher, message, content_type, result, unwrap_log>>

\* unwrap_message(envelope, hostname)
UnwrapMessage ==
    /\ pc \in {"wrapped", "received"}
    /\ LET r == unwrap_message(Self, envelope)
       IN  /\ result' = r.result
           /\ unwrap_log' = r.log
    /\ pc' = "unwrapped"
    /\ UNCHANGED <<protocol, ctx, cipher, message, content_type, envelope, damage>>

-----------------------------------------------------------------------------
(* Specifications: the three parts run one at a time.                       *)

Init == EnumIdle /\ TrailerIdle /\ FrameIdle

Next ==
    \/ Construct /\ UNCHANGED <<enum_vars, trail_vars>>
    \/ WrapMessage /\ UNCHANGED <<enum_vars, trail_vars>>
    \/ Mutate /\ UNCHANGED <<enum_vars, trail_vars>>
    \/ Truncate /\ UNCHANGED <<enum_vars, trail_vars>>
    \/ CutBinary /\ UNCHANGED <<enum_vars, trail_vars>>
    \/ UnwrapMessage /\ UNCHANGED <<enum_vars, trail_vars>>

\* the framer
Spec == Init /\ [][Next]_vars

EnumNext ==
    \/ NewFromSubset /\ UNCHANGED <<trail_vars, frame_vars>>
    \/ NewFromText /\ UNCHANGED <<trail_vars, frame_vars>>
    \/ NewFromInt /\ UNCHANGED <<trail_vars, frame_vars>>
    \/ EnumStr /\ UNCHANGED <<trail_vars, frame_vars>>

\* the enum codec
EnumSpec == Init /\ [][EnumNext]_vars

TrailerNext == CredsspTrailer /\ UNCHANGED <<enum_vars, frame_vars>>

\* the trailer computation
TrailerSpec == Init /\ [][TrailerNext]_vars

-----------------------------------------------------------------------------
(* Properties of the enum codec (checked under EnumSpec).                   *)

\* bit b of the non-negative integer v is set
HasBit(v, b) == (v \div (2 ^ b)) % 2 = 1

RECURSIVE UnionBitsFrom(_, _)
UnionBitsFrom(S, b) ==
    IF \A v \in S : v < 2 ^ b THEN 0
    ELSE (IF \E v \in S : HasBit(v, b) THEN 2 ^ b ELSE 0) + UnionBitsFrom(S, b + 1)

\* the integer whose bits are those set in some member of S
UnionBits(S) == UnionBitsFrom(S, 0)

\* the bits of n that are not in m
Without(n, m) == UnionBits({2 ^ b : b \in {c \in 0..30 : HasBit(n, c) /\ ~HasBit(m, c)}})

\* every bit of v is a bit of n
Within(v, n) == \A b \in 0..30 : HasBit(v, b) => HasBit(n, b)

\* the non-zero values of the labels in a sequence of labels of cls
FlagValues(cls, labels) == {Lookup(cls, labels[i]) : i \in DOMAIN labels} \ {0}

\* the non-zero values cls defines
DefinedFlags(cls) == {cls.ENUM_MAP[i].v : i \in DOMAIN cls.ENUM_MAP} \ {0}

\* no two different non-zero values of cls share a bit
DisjointValues(cls) ==
    \A v, w \in DefinedFlags(cls) : v # w => \A b \in 0..30 : ~(HasBit(v, b) /\ HasBit(w, b))

\* the tokens of the text __str__ returned
TextTokens == Split(enum_text, <<44, 32>>)

\* the values of a sequence of labels go strictly down
HighFirst(cls, labels) ==
    \A i, j \in DOMAIN labels : i < j => Lookup(cls, labels[i]) > Lookup(cls, labels[j])

\* the text names labels of cls only, highest value first, encodes back to the
\* value of the object, and names the flags the subset named
RoundTrips ==
    /\ enum_obj.kind = "ok"
    /\ epc = "str" =>
         /\ \A i \in DOMAIN TextTokens : HasKey(enum_cls, TextTokens[i])
         /\ HighFirst(enum_cls, TextTokens)
         /\ PSEnumBase_new(enum_cls, [type |-> "text", s |-> enum_text])
              = [kind |-> "ok", value |-> enum_obj.value]
         /\ FlagValues(enum_cls, TextTokens) = FlagValues(enum_cls, enum_subset.labels)

\* C5 as stated: for every flag enum and every subset of its labels, the joined
\* subset encodes, and the text decoded from the integer names an equivalent
\* label list, highest value first.
C5_EverySubsetRoundTrips ==
    (epc \in {"new", "str"} /\ enum_subset.joined /\ enum_cls.IS_FLAGS) => RoundTrips

\* C5 as amended: the same for every non-empty subset of the labels of a flag enum
\* whose different non-zero values share no bits.
C5_DisjointSubsetRoundTrips ==
    ( /\ epc \in {"new", "str"}
      /\ enum_subset.joined
      /\ enum_cls.IS_FLAGS
      /\ enum_subset.labels # << >>
      /\ DisjointValues(enum_cls) ) => RoundTrips

C5_Witness ==
    /\ epc = "str"
    /\ enum_cls = AccessFlags
    /\ enum_subset.joined
    /\ enum_subset.labels = <<L_Read, L_Write, L_Execute>>

TextReadWrite   == <<82,101,97,100,44,32,87,114,105,116,101>>          \* 'Read, Write'
TextWriteRead   == <<87,114,105,116,101,44,32,82,101,97,100>>          \* 'Write, Read'
TextRead4       == <<82,101,97,100,44,32,52>>                          \* 'Read, 4'
TextExecuteRead == <<69,120,101,99,117,116,101,44,32,82,101,97,100>>   \* 'Execute, Read'

\* encoding "Read, Write" with {None:0, Read:1, Write:2, Execute:4} gives 3
EncodesReadWrite ==
    (epc \in {"new", "str"} /\ enum_arg.type = "text" /\ enum_arg.s = TextReadWrite)
        => (enum_obj.kind = "ok" /\ enum_obj.value = 3)

\* C6 as stated: with {None:0, Read:1, Write:2, Execute:4}, "Read, Write" encodes
\* to 3, 3 decodes to "Read, Write" and 5 decodes to "Read, 4".
C6_Scenario ==
    enum_cls = AccessFlags =>
        /\ EncodesReadWrite
        /\ (epc = "str" /\ enum_obj.value = 3) => enum_text = TextReadWrite
        /\ (epc = "str" /\ enum_obj.value = 5) => enum_text = TextRead4

\* C6 as amended: "Read, Write" encodes to 3, 3 decodes to "Write, Read" and 5
\* decodes to "Execute, Read".
C6_ScenarioHighFirst ==
    enum_cls = AccessFlags =>
        /\ EncodesReadWrite
        /\ (epc = "str" /\ enum_obj.value = 3) => enum_text = TextWriteRead
        /\ (epc = "str" /\ enum_obj.value = 5) => enum_text = TextExecuteRead

C6_Witness ==
    /\ epc = "str"
    /\ enum_cls = AccessFlags
    /\ enum_arg.type = "int"
    /\ enum_arg.n = 5

\* the object is a flag enum's, decoded, and its value has a bit no defined flag has
HasUnknownBits ==
    /\ epc = "str"
    /\ enum_cls.IS_FLAGS
    /\ Without(enum_obj.value, UnionBits(DefinedFlags(enum_cls))) # 0

\* the labels of the text before its last token, and the last token
TextLabels == SubSeq(TextTokens, 1, Len(TextTokens) - 1)
TextLast   == TextTokens[Len(TextTokens)]

\* the last token is the decimal form of the bits of the value that the labels
\* before it do not cover
RemainderSurvives ==
    /\ \A i \in DOMAIN TextLabels : HasKey(enum_cls, TextLabels[i])
    /\ ParseInt(TextLast).ok
    /\ TextLast = IntToStr(ParseInt(TextLast).v)
    /\ ParseInt(TextLast).v
         = Without(enum_obj.value, UnionBits(FlagValues(enum_cls, TextLabels)))

\* C7 as stated: an integer with a bit no defined flag has decodes to the labels
\* of the defined flags contained in it, highest value first, and one decimal
\* token holding the bits those flags do not cover.
C7_AllContainedFlagsNamed ==
    HasUnknownBits =>
        /\ RemainderSurvives
        /\ {TextLabels[i] : i \in DOMAIN TextLabels}
             = {enum_cls.ENUM_MAP[i].k : i \in
                  {j \in DOMAIN enum_cls.ENUM_MAP :
                     /\ enum_cls.ENUM_MAP[j].v # 0
                     /\ Within(enum_cls.ENUM_MAP[j].v, enum_obj.value)}}
        /\ \A i, j \in DOMAIN TextLabels :
             i < j => Lookup(enum_cls, TextLabels[i]) >= Lookup(enum_cls, TextLabels[j])

\* C7 as amended: it decodes to labels of defined flags contained in it that share
\* no bits, one label for a value, highest value first, and one decimal token
\* holding the bits those flags do not cover, in which no defined flag is left;
\* when the values of the enum share no bits, every contained flag is named.
C7_GreedyFlagsNamed ==
    HasUnknownBits =>
        /\ RemainderSurvives
        /\ HighFirst(enum_cls, TextLabels)
        /\ \A i \in DOMAIN TextLabels :
             /\ Lookup(enum_cls, TextLabels[i]) # 0
             /\ Within(Lookup(enum_cls, TextLabels[i]), enum_obj.value)
        /\ \A i, j \in DOMAIN TextLabels :
             i # j => \A b \in 0..30 :
                 ~(HasBit(Lookup(enum_cls, TextLabels[i]), b)
                   /\ HasBit(Lookup(enum_cls, TextLabels[j]), b))
        /\ \A v \in DefinedFlags(enum_cls) : ~Within(v, ParseInt(TextLast).v)
        /\ DisjointValues(enum_cls) =>
             FlagValues(enum_cls, TextLabels)
               = {v \in DefinedFlags(enum_cls) : Within(v, enum_obj.value)}

C7_Witness ==
    /\ HasUnknownBits
    /\ enum_cls = OverlapFlags
    /\ enum_obj.value = 15

\* the stripped tokens of a text argument
ArgTokens ==
    [i \in DOMAIN Split(enum_arg.s, <<44>>) |->
        Strip(Split(enum_arg.s, <<44>>)[i], StrWhitespace)]

\* __new__ raised the error that names this token and lists the labels of the class
Rejects(token) ==
    /\ enum_obj.kind = "ValueError"
    /\ enum_obj.token = token
    /\ enum_obj.valid = Join(Keys(enum_cls), <<44, 32>>)

\* C8: a text encodes exactly when it is a label (non-flag enum) or every stripped
\* token of it is a label (flag enum), to the value of the label or the union of
\* the values of the tokens (0 when they are all 0); any other text is rejected
\* with the error naming the first token that is no label; no value results.
C8_EncodeRejects ==
    (epc \in {"new", "str"} /\ enum_arg.type = "text") =>
        IF ~enum_cls.IS_FLAGS
        THEN IF HasKey(enum_cls, enum_arg.s)
             THEN enum_obj = [kind |-> "ok", value |-> Lookup(enum_cls, enum_arg.s)]
             ELSE Rejects(enum_arg.s)
        ELSE LET bad == {i \in DOMAIN ArgTokens : ~HasKey(enum_cls, ArgTokens[i])}
             IN  IF bad = {}
                 THEN enum_obj = [kind |-> "ok",
                                  value |-> UnionBits(FlagValues(enum_cls, ArgTokens))]
                 ELSE Rejects(ArgTokens[Min(bad)])

C8_Witness ==
    /\ epc = "new"
    /\ enum_cls = AccessFlags
    /\ enum_arg.type = "text"
    /\ enum_arg.s = <<82,101,97,100,44,66,111,103,117,115>>   \* 'Read,Bogus'
    /\ enum_obj.kind = "ValueError"
    /\ enum_obj.token = <<66,111,103,117,115>>                 \* 'Bogus'

-----------------------------------------------------------------------------
(* Properties of the trailer computation (checked under TrailerSpec).       *)

\* the tokens of a cipher-suite name, which OpenSSL separates by '-' (TLS 1.2
\* and earlier names) or by '_' (TLS 1.3 names)
SuiteTokens(cipher_suite) ==
    LET dashed == Split(cipher_suite, <<45>>)
    IN  UNION {{Split(dashed[i], <<95>>)[j] : j \in DOMAIN Split(dashed[i], <<95>>)}
                 : i \in DOMAIN dashed}

\* the cipher-suite name names a GCM-mode suite
NamesGcmSuite(cipher_suite) == <<71, 67, 77>> \in SuiteTokens(cipher_suite)

\* C10: for every cipher-suite name that names a GCM-mode suite the trailer
\* length is 16, whatever the plaintext length.
C10_GcmTrailerIs16 ==
    (tpc = "done" /\ NamesGcmSuite(t_suite)) => t_out = 16

-----------------------------------------------------------------------------
(* Properties of the framer (checked under Spec).                           *)

\* the digits that follow the header field starting at index i of env
DeclaredAt(env, i) ==
    LET from == i + Len(OriginalContentPrefix)
    IN  DigitsValue(SubSeq(env, from, Find(env, CRLF, from) - 1))

RECURSIVE DeclaredFrom(_, _)
DeclaredFrom(env, starts) ==
    IF starts = {} THEN << >>
    ELSE <<DeclaredAt(env, Min(starts))>> \o DeclaredFrom(env, starts \ {Min(starts)})

\* the Length= values of the chunk headers of an envelope, in order
DeclaredLengths(env) == DeclaredFrom(env, Occurrences(env, OriginalContentPrefix))

\* C1: without damage on the wire, unwrap_message of what wrap_message returned
\* returns the message, for both mechanisms and any content.
C1_RoundTrip ==
    (pc = "unwrapped" /\ damage.kind = "none") => result = Recovered(message)

\* C2: under CredSSP a message of 16384 bytes is one chunk of content type
\* multipart/encrypted and one of 16385 bytes is two chunks, of declared lengths
\* 16384 and 1, of content type multipart/x-multi-encrypted; under SPNEGO a
\* message of any length is one chunk of content type multipart/encrypted.
C2_ChunkBoundary ==
    pc = "wrapped" =>
        /\ (protocol = CREDSSP /\ Len(message) = 16384) =>
             /\ content_type = "multipart/encrypted"
             /\ DeclaredLengths(envelope) = <<16384>>
        /\ (protocol = CREDSSP /\ Len(message) = 16385) =>
             /\ content_type = "multipart/x-multi-encrypted"
             /\ DeclaredLengths(envelope) = <<16384, 1>>
        /\ protocol = SPNEGO =>
             /\ content_type = "multipart/encrypted"
             /\ DeclaredLengths(envelope) = <<Len(message)>>

C2_Witness ==
    /\ pc = "wrapped"
    /\ protocol = CREDSSP
    /\ Len(message) = 16385
    /\ content_type = "multipart/x-multi-encrypted"

\* C3: a chunk whose recovered length differs from its declared length is the
\* last one unwrapped, and unwrap_message then fails with the length-mismatch
\* error carrying both lengths and no plaintext; unwrap_message returns a value
\* only when the two lengths agreed for every chunk.
C3_LengthChecked ==
    pc = "unwrapped" =>
        /\ result.kind = "ok" =>
             \A i \in DOMAIN unwrap_log : unwrap_log[i].actual = unwrap_log[i].expected
        /\ \A i \in DOMAIN unwrap_log :
             unwrap_log[i].actual # unwrap_log[i].expected =>
                /\ i = Len(unwrap_log)
                /\ result = LengthMismatch(unwrap_log[i].actual, unwrap_log[i].expected)
                /\ result.data = << >>

C3_Witness ==
    /\ pc = "unwrapped"
    /\ Len(unwrap_log) = 2
    /\ unwrap_log[1].actual = unwrap_log[1].expected
    /\ unwrap_log[2].actual # unwrap_log[2].expected
    /\ result.error = "WinRMError"

\* one byte of a chunk's binary payload was changed, and the envelope unwrapped
BinaryMutated ==
    /\ pc = "unwrapped"
    /\ damage.kind = "mutate"
    /\ damage.region = "binary"

Fragment == FilterNonEmpty(Split(envelope, BoundaryLine))

\* a header fragment without a Length= field, or with one that is no number
BadLength(header) ==
    LET fields == Split(Strip(header, BytesWhitespace), LengthField)
    IN  \/ Len(fields) < 2
        \/ fields[2] = << >>
        \/ \E k \in DOMAIN fields[2] : fields[2][k] \notin Digits

\* the binary payload of a payload fragment: what is left without the
\* octet-stream line and the end boundary
BinaryOf(payload) ==
    LET body == IF EndsWith(payload, EndBoundary)
                THEN SubSeq(payload, 1, Len(payload) - Len(EndBoundary)) ELSE payload
    IN  IF OccursAt(body, OctetStreamLine, 1)
        THEN SubSeq(body, Len(OctetStreamLine) + 1, Len(body)) ELSE body

\* a binary payload shorter than its 4-byte prefix, or (SPNEGO) than the prefix
\* and the header whose length the prefix declares
CutShort(binary) ==
    \/ Len(binary) < 4
    \/ /\ protocol = SPNEGO
       /\ Len(binary) < 4 + UnpackInt32(SubSeq(binary, 1, 4))

Malformed ==
    \/ Len(Fragment) % 2 = 1
    \/ \E i \in DOMAIN Fragment : i % 2 = 1 /\ BadLength(Fragment[i])
    \/ \E i \in DOMAIN Fragment : i % 2 = 0 /\ CutShort(BinaryOf(Fragment[i]))

\* C9: unwrap_message of a malformed envelope fails.
C9_MalformedRejected ==
    (pc = "unwrapped" /\ Malformed) => result.kind = "error"

====
